---- MODULE Spec2Model ----
(***************************************************************************)
(* A model of the event loop core of libevent 1.4 as found in event.c:     *)
(* the event registry, the timer heap, the priority run-queues, the        *)
(* add/del/activate operations and the dispatch cycle of event_base_loop.  *)
(*                                                                         *)
(* The operations of event.c are operators on a record st that holds the   *)
(* memory they work on (the events, the event_base, the backend's          *)
(* registrations and the local ncalls of event_process_active that         *)
(* ev_pncalls points to); the actions apply them to the variables.         *)
(***************************************************************************)
EXTENDS Integers, Sequences, FiniteSets, TLC

\* ------------------------------------------------------------- bounds
NumEvents == 2
MaxTime == 2
MaxTv == 1
MaxNcalls == 2
MaxPrio == 2
MaxJumped == 2

Events == 1..NumEvents

\* The event that event_base_once allocates for event_base_loopexit.
ExitEvent == NumEvents + 1
Times == 1..MaxTime

\* ---------------------------------------------------------- constants
EVLIST_TIMEOUT == "EVLIST_TIMEOUT"
EVLIST_INSERTED == "EVLIST_INSERTED"
EVLIST_ACTIVE == "EVLIST_ACTIVE"
EVLIST_INTERNAL == "EVLIST_INTERNAL"

EV_TIMEOUT == "EV_TIMEOUT"
EV_READ == "EV_READ"
EV_PERSIST == "EV_PERSIST"

EVLOOP_ONCE == "EVLOOP_ONCE"
EVLOOP_NONBLOCK == "EVLOOP_NONBLOCK"

\* a null pointer (tv == NULL, tv_p == NULL, an empty heap's top), told
\* apart from every time, duration and event
NULL == 0 - 1

\* what event_base_loop returns: 0, 1 and -1
OK == "OK"
NO_EVENTS == "NO_EVENTS"
ERROR == "ERROR"

\* the three queues of event_queue_insert / event_queue_remove
Queues == {EVLIST_INSERTED, EVLIST_ACTIVE, EVLIST_TIMEOUT}

\* ---------------------------------------------------------- timer heap
\* The heap is the array s->p[0..n-1], here the sequence p with p[i+1] for
\* s->p[i]; evs gives the deadlines (ev_timeout) the heap is ordered by.
min_heap_elem_greater(evs, a, b) == evs[a].ev_timeout > evs[b].ev_timeout

RECURSIVE min_heap_shift_up_(_, _, _, _)
min_heap_shift_up_(p, hole_index, e, evs) ==
    LET parent == (hole_index - 1) \div 2
    IN  IF hole_index # 0 /\ min_heap_elem_greater(evs, p[parent + 1], e)
        THEN min_heap_shift_up_([p EXCEPT ![hole_index + 1] = p[parent + 1]],
                                parent, e, evs)
        ELSE [p EXCEPT ![hole_index + 1] = e]

RECURSIVE min_heap_shift_down_(_, _, _, _, _)
min_heap_shift_down_(p, n, hole_index, e, evs) ==
    LET mc0 == 2 * (hole_index + 1)
    IN  IF mc0 <= n
        THEN LET min_child ==
                     IF mc0 = n \/ min_heap_elem_greater(evs, p[mc0 + 1], p[mc0])
                     THEN mc0 - 1 ELSE mc0
             IN  IF ~min_heap_elem_greater(evs, e, p[min_child + 1])
                 THEN min_heap_shift_up_(p, hole_index, e, evs)
                 ELSE min_heap_shift_down_(
                          [p EXCEPT ![hole_index + 1] = p[min_child + 1]],
                          n, min_child, e, evs)
        ELSE min_heap_shift_up_(p, hole_index, e, evs)

min_heap_top(p) == IF Len(p) = 0 THEN NULL ELSE p[1]

min_heap_push(p, e, evs) == min_heap_shift_up_(Append(p, e), Len(p), e, evs)

min_heap_idx(p, e) == (CHOOSE i \in 1..Len(p) : p[i] = e) - 1

min_heap_erase(p, e, evs) ==
    LET n == Len(p) - 1
        last == p[Len(p)]
    IN  SubSeq(min_heap_shift_down_(p, n, min_heap_idx(p, e), last, evs), 1, n)

\* ------------------------------------------------------------ queues
SeqRemove(q, e) == SelectSeq(q, LAMBDA x : x # e)

\* A count that does not set internal events apart.
EventCountDeltaAll(st, e) == 1

EventCountDelta(st, e) ==
    IF EVLIST_INTERNAL \in st.ev[e].ev_flags THEN 0 ELSE 1

event_queue_remove(st, e, queue) ==
    IF queue \notin st.ev[e].ev_flags
    THEN [st EXCEPT !.fault = "errx"]
    ELSE LET s1 == [st EXCEPT !.base.event_count = @ - EventCountDelta(st, e),
                              !.ev[e].ev_flags = @ \ {queue}]
         IN  CASE queue = EVLIST_INSERTED ->
                    [s1 EXCEPT !.base.eventqueue = SeqRemove(@, e)]
               [] queue = EVLIST_ACTIVE ->
                    [s1 EXCEPT !.base.event_count_active = @ - 1,
                               !.base.activequeues[st.ev[e].ev_pri] = SeqRemove(@, e)]
               [] queue = EVLIST_TIMEOUT ->
                    [s1 EXCEPT !.base.timeheap = min_heap_erase(@, e, st.ev)]

\* An insertion that links an active event at the head of its run-queue.
event_queue_insert_head(st, e, queue) ==
    IF queue \in st.ev[e].ev_flags
    THEN IF queue = EVLIST_ACTIVE THEN st ELSE [st EXCEPT !.fault = "errx"]
    ELSE LET s1 == [st EXCEPT !.base.event_count = @ + EventCountDelta(st, e),
                              !.ev[e].ev_flags = @ \cup {queue}]
         IN  CASE queue = EVLIST_INSERTED ->
                    [s1 EXCEPT !.base.eventqueue = Append(@, e)]
               [] queue = EVLIST_ACTIVE ->
                    IF st.ev[e].ev_pri \in DOMAIN st.base.activequeues
                    THEN [s1 EXCEPT !.base.event_count_active = @ + 1,
                                    !.base.activequeues[st.ev[e].ev_pri] = <<e>> \o @]
                    ELSE [s1 EXCEPT !.base.event_count_active = @ + 1,
                                    !.fault = "oob"]
               [] queue = EVLIST_TIMEOUT ->
                    [s1 EXCEPT !.base.timeheap = min_heap_push(@, e, st.ev)]

event_queue_insert(st, e, queue) ==
    IF queue \in st.ev[e].ev_flags
    THEN IF queue = EVLIST_ACTIVE THEN st ELSE [st EXCEPT !.fault = "errx"]
    ELSE LET s1 == [st EXCEPT !.base.event_count = @ + EventCountDelta(st, e),
                              !.ev[e].ev_flags = @ \cup {queue}]
         IN  CASE queue = EVLIST_INSERTED ->
                    [s1 EXCEPT !.base.eventqueue = Append(@, e)]
               [] queue = EVLIST_ACTIVE ->
                    IF st.ev[e].ev_pri \in DOMAIN st.base.activequeues
                    THEN [s1 EXCEPT !.base.event_count_active = @ + 1,
                                    !.base.activequeues[st.ev[e].ev_pri] = Append(@, e)]
                    ELSE [s1 EXCEPT !.base.event_count_active = @ + 1,
                                    !.fault = "oob"]
               [] queue = EVLIST_TIMEOUT ->
                    [s1 EXCEPT !.base.timeheap = min_heap_push(@, e, st.ev)]

\* -------------------------------------------------------------- time
gettime(st, clk) == IF st.base.tv_cache # 0 THEN st.base.tv_cache ELSE clk

\* ----------------------------------------------------------- backend
\* evsel->add and evsel->del of the backend: st.evsel is the set of events
\* the backend has registered; fail is the outcome the backend reports.
evsel_add(st, e, fail) ==
    IF fail THEN st ELSE [st EXCEPT !.evsel = @ \cup {e}]

evsel_del(st, e, fail) ==
    IF fail THEN st ELSE [st EXCEPT !.evsel = @ \ {e}]

\* ------------------------------------------------- add, del, activate
HasIO(st, e) == EV_READ \in st.ev[e].ev_events

event_add_res(st, e, tv, nomem, fail) ==
    IF tv # NULL /\ EVLIST_TIMEOUT \notin st.ev[e].ev_flags /\ nomem
    THEN -1
    ELSE IF HasIO(st, e)
            /\ st.ev[e].ev_flags \cap {EVLIST_INSERTED, EVLIST_ACTIVE} = {}
            /\ fail
         THEN -1 ELSE 0

\* An add that arms the timer whatever the backend has answered.
event_add_arm_anyway(st, e, tv, clk, nomem, fail) ==
    IF tv # NULL /\ EVLIST_TIMEOUT \notin st.ev[e].ev_flags /\ nomem
    THEN st
    ELSE
    LET s1 == IF HasIO(st, e)
                 /\ st.ev[e].ev_flags \cap {EVLIST_INSERTED, EVLIST_ACTIVE} = {}
              THEN IF fail THEN evsel_add(st, e, fail)
                   ELSE event_queue_insert(evsel_add(st, e, fail), e, EVLIST_INSERTED)
              ELSE st
    IN  IF tv # NULL
        THEN LET s2 == IF EVLIST_TIMEOUT \in s1.ev[e].ev_flags
                       THEN event_queue_remove(s1, e, EVLIST_TIMEOUT)
                       ELSE s1
             IN  event_queue_insert(
                     [s2 EXCEPT !.ev[e].ev_timeout = gettime(s2, clk) + tv],
                     e, EVLIST_TIMEOUT)
        ELSE s1

\* An add that leaves an armed event with the deadline it has.
event_add_keep_deadline(st, e, tv, clk, nomem, fail) ==
    IF tv # NULL /\ EVLIST_TIMEOUT \notin st.ev[e].ev_flags /\ nomem
    THEN st
    ELSE
    LET res == event_add_res(st, e, tv, nomem, fail)
        s1 == IF HasIO(st, e)
                 /\ st.ev[e].ev_flags \cap {EVLIST_INSERTED, EVLIST_ACTIVE} = {}
              THEN IF fail THEN evsel_add(st, e, fail)
                   ELSE event_queue_insert(evsel_add(st, e, fail), e, EVLIST_INSERTED)
              ELSE st
    IN  IF res # -1 /\ tv # NULL /\ EVLIST_TIMEOUT \notin s1.ev[e].ev_flags
        THEN event_queue_insert(
                 [s1 EXCEPT !.ev[e].ev_timeout = gettime(s1, clk) + tv],
                 e, EVLIST_TIMEOUT)
        ELSE s1

\* An add that registers every event that is not INSERTED, active or not.
event_add_register_active(st, e, tv, clk, nomem, fail) ==
    IF tv # NULL /\ EVLIST_TIMEOUT \notin st.ev[e].ev_flags /\ nomem
    THEN st
    ELSE
    LET s1 == IF HasIO(st, e) /\ EVLIST_INSERTED \notin st.ev[e].ev_flags
              THEN IF fail THEN evsel_add(st, e, fail)
                   ELSE event_queue_insert(evsel_add(st, e, fail), e, EVLIST_INSERTED)
              ELSE st
    IN  IF ~(HasIO(st, e) /\ EVLIST_INSERTED \notin st.ev[e].ev_flags /\ fail)
           /\ tv # NULL
        THEN LET s2 == IF EVLIST_TIMEOUT \in s1.ev[e].ev_flags
                       THEN event_queue_remove(s1, e, EVLIST_TIMEOUT)
                       ELSE s1
                 s3 == IF EVLIST_ACTIVE \in s2.ev[e].ev_flags
                          /\ EV_TIMEOUT \in s2.ev[e].ev_res
                       THEN event_queue_remove(
                                IF s2.ev[e].ev_ncalls # 0 /\ s2.ev[e].ev_pncalls
                                THEN [s2 EXCEPT !.ncalls = 0] ELSE s2,
                                e, EVLIST_ACTIVE)
                       ELSE s2
                 s4 == [s3 EXCEPT !.ev[e].ev_timeout = gettime(s3, clk) + tv]
             IN  event_queue_insert(s4, e, EVLIST_TIMEOUT)
        ELSE s1

event_add(st, e, tv, clk, nomem, fail) ==
    IF tv # NULL /\ EVLIST_TIMEOUT \notin st.ev[e].ev_flags /\ nomem
    THEN st
    ELSE
    LET res == event_add_res(st, e, tv, nomem, fail)
        s1 == IF HasIO(st, e)
                 /\ st.ev[e].ev_flags \cap {EVLIST_INSERTED, EVLIST_ACTIVE} = {}
              THEN IF fail THEN evsel_add(st, e, fail)
                   ELSE event_queue_insert(evsel_add(st, e, fail), e, EVLIST_INSERTED)
              ELSE st
    IN  IF res # -1 /\ tv # NULL
        THEN LET s2 == IF EVLIST_TIMEOUT \in s1.ev[e].ev_flags
                       THEN event_queue_remove(s1, e, EVLIST_TIMEOUT)
                       ELSE s1
                 s3 == IF EVLIST_ACTIVE \in s2.ev[e].ev_flags
                          /\ EV_TIMEOUT \in s2.ev[e].ev_res
                       THEN event_queue_remove(
                                IF s2.ev[e].ev_ncalls # 0 /\ s2.ev[e].ev_pncalls
                                THEN [s2 EXCEPT !.ncalls = 0] ELSE s2,
                                e, EVLIST_ACTIVE)
                       ELSE s2
                 s4 == [s3 EXCEPT !.ev[e].ev_timeout = gettime(s3, clk) + tv]
             IN  event_queue_insert(s4, e, EVLIST_TIMEOUT)
        ELSE s1

event_del_res(st, e, fail) ==
    IF EVLIST_INSERTED \in st.ev[e].ev_flags /\ fail THEN -1 ELSE 0

\* A deletion that changes nothing when the backend refuses it.
event_del_atomic(st, e, fail) ==
    LET s0 == IF st.ev[e].ev_ncalls # 0 /\ st.ev[e].ev_pncalls
              THEN [st EXCEPT !.ncalls = 0] ELSE st
        s1 == IF EVLIST_TIMEOUT \in s0.ev[e].ev_flags
              THEN event_queue_remove(s0, e, EVLIST_TIMEOUT) ELSE s0
        s2 == IF EVLIST_ACTIVE \in s1.ev[e].ev_flags
              THEN event_queue_remove(s1, e, EVLIST_ACTIVE) ELSE s1
    IN  IF EVLIST_INSERTED \in st.ev[e].ev_flags /\ fail
        THEN st
        ELSE IF EVLIST_INSERTED \in s2.ev[e].ev_flags
        THEN evsel_del(event_queue_remove(s2, e, EVLIST_INSERTED), e, fail)
        ELSE s2

\* A deletion that leaves the event in its run-queue.
event_del_keep_active(st, e, fail) ==
    LET s0 == IF st.ev[e].ev_ncalls # 0 /\ st.ev[e].ev_pncalls
              THEN [st EXCEPT !.ncalls = 0] ELSE st
        s1 == IF EVLIST_TIMEOUT \in s0.ev[e].ev_flags
              THEN event_queue_remove(s0, e, EVLIST_TIMEOUT) ELSE s0
    IN  IF EVLIST_INSERTED \in s1.ev[e].ev_flags
        THEN evsel_del(event_queue_remove(s1, e, EVLIST_INSERTED), e, fail)
        ELSE s1

event_del(st, e, fail) ==
    LET s0 == IF st.ev[e].ev_ncalls # 0 /\ st.ev[e].ev_pncalls
              THEN [st EXCEPT !.ncalls = 0] ELSE st
        s1 == IF EVLIST_TIMEOUT \in s0.ev[e].ev_flags
              THEN event_queue_remove(s0, e, EVLIST_TIMEOUT) ELSE s0
        s2 == IF EVLIST_ACTIVE \in s1.ev[e].ev_flags
              THEN event_queue_remove(s1, e, EVLIST_ACTIVE) ELSE s1
    IN  IF EVLIST_INSERTED \in s2.ev[e].ev_flags
        THEN evsel_del(event_queue_remove(s2, e, EVLIST_INSERTED), e, fail)
        ELSE s2

\* An activation that replaces the causes an active event has collected.
event_active_overwrite(st, e, res, ncalls) ==
    IF EVLIST_ACTIVE \in st.ev[e].ev_flags
    THEN [st EXCEPT !.ev[e].ev_res = res]
    ELSE event_queue_insert(
             [st EXCEPT !.ev[e].ev_res = res,
                        !.ev[e].ev_ncalls = ncalls,
                        !.ev[e].ev_pncalls = FALSE],
             e, EVLIST_ACTIVE)

event_active(st, e, res, ncalls) ==
    IF EVLIST_ACTIVE \in st.ev[e].ev_flags
    THEN [st EXCEPT !.ev[e].ev_res = @ \cup res]
    ELSE event_queue_insert(
             [st EXCEPT !.ev[e].ev_res = res,
                        !.ev[e].ev_ncalls = ncalls,
                        !.ev[e].ev_pncalls = FALSE],
             e, EVLIST_ACTIVE)

\* ------------------------------------------------- timers of the loop
\* A wait that is not cut at zero when the first deadline has passed.
timeout_next_unclamped(st, clk) ==
    IF min_heap_top(st.base.timeheap) = NULL
    THEN NULL
    ELSE st.ev[min_heap_top(st.base.timeheap)].ev_timeout - gettime(st, clk)

timeout_next(st, clk) ==
    IF min_heap_top(st.base.timeheap) = NULL
    THEN NULL
    ELSE LET t == st.ev[min_heap_top(st.base.timeheap)].ev_timeout
             now == gettime(st, clk)
         IN  IF t <= now THEN 0 ELSE t - now

HeapSet(st) == {st.base.timeheap[i] : i \in 1..Len(st.base.timeheap)}

\* A correction that only remembers the time it has read.
timeout_correct_none(st, clk, monotonic) ==
    IF monotonic THEN st ELSE [st EXCEPT !.base.event_tv = gettime(st, clk)]

\* A correction that leaves out the timer at the top of the heap.
timeout_correct_rest(st, clk, monotonic) ==
    IF monotonic
    THEN st
    ELSE LET tv == gettime(st, clk)
         IN  IF tv >= st.base.event_tv
             THEN [st EXCEPT !.base.event_tv = tv]
             ELSE LET off == st.base.event_tv - tv
                  IN  [st EXCEPT
                          !.ev = [e \in DOMAIN st.ev |->
                                     IF e \in HeapSet(st)
                                        /\ e # min_heap_top(st.base.timeheap)
                                     THEN [st.ev[e] EXCEPT !.ev_timeout = @ - off]
                                     ELSE st.ev[e]],
                          !.base.event_tv = tv]

\* A correction that takes the difference from every deadline twice.
timeout_correct_twice(st, clk, monotonic) ==
    IF monotonic
    THEN st
    ELSE LET tv == gettime(st, clk)
         IN  IF tv >= st.base.event_tv
             THEN [st EXCEPT !.base.event_tv = tv]
             ELSE LET off == st.base.event_tv - tv
                  IN  [st EXCEPT
                          !.ev = [e \in DOMAIN st.ev |->
                                     IF e \in HeapSet(st)
                                     THEN [st.ev[e] EXCEPT !.ev_timeout = @ - 2 * off]
                                     ELSE st.ev[e]],
                          !.base.event_tv = tv]

timeout_correct(st, clk, monotonic) ==
    IF monotonic
    THEN st
    ELSE LET tv == gettime(st, clk)
         IN  IF tv >= st.base.event_tv
             THEN [st EXCEPT !.base.event_tv = tv]
             ELSE LET off == st.base.event_tv - tv
                  IN  [st EXCEPT
                          !.ev = [e \in DOMAIN st.ev |->
                                     IF e \in HeapSet(st)
                                     THEN [st.ev[e] EXCEPT !.ev_timeout = @ - off]
                                     ELSE st.ev[e]],
                          !.base.event_tv = tv]

\* A drain that stops at a deadline equal to now.
RECURSIVE timeout_process_loop_strict(_, _, _)
timeout_process_loop_strict(st, now, fail) ==
    LET e == min_heap_top(st.base.timeheap)
    IN  IF e = NULL \/ st.fault # "none"
        THEN st
        ELSE IF st.ev[e].ev_timeout >= now
             THEN st
             ELSE timeout_process_loop_strict(
                      event_active(event_del(st, e, fail), e, {EV_TIMEOUT}, 1),
                      now, fail)

RECURSIVE timeout_process_loop(_, _, _)
timeout_process_loop(st, now, fail) ==
    LET e == min_heap_top(st.base.timeheap)
    IN  IF e = NULL \/ st.fault # "none"
        THEN st
        ELSE IF st.ev[e].ev_timeout > now
             THEN st
             ELSE timeout_process_loop(
                      event_active(event_del(st, e, fail), e, {EV_TIMEOUT}, 1),
                      now, fail)

timeout_process(st, clk, fail) ==
    IF Len(st.base.timeheap) = 0
    THEN st
    ELSE timeout_process_loop(st, gettime(st, clk), fail)

\* ------------------------------------------------------ priority setup
event_base_priority_init(st, npriorities) ==
    IF st.base.event_count_active # 0
    THEN st
    ELSE IF npriorities = st.base.nactivequeues
         THEN st
         ELSE [st EXCEPT !.base.nactivequeues = npriorities,
                         !.base.activequeues = [i \in 0..(npriorities - 1) |-> <<>>]]

event_priority_set(st, e, pri) ==
    IF EVLIST_ACTIVE \in st.ev[e].ev_flags
    THEN st
    ELSE IF pri < 0 \/ pri >= st.base.nactivequeues
         THEN st
         ELSE [st EXCEPT !.ev[e].ev_pri = pri]

event_base_loopbreak(st) == [st EXCEPT !.base.event_break = TRUE]

\* ---------------------------------------------------- scheduled exit
event_loopexit_cb(st) == [st EXCEPT !.base.event_gotterm = TRUE]

\* event_once_cb of the exit event: (*eonce->cb)(fd, events, eonce->arg),
\* which is event_loopexit_cb, and free(eonce); the struct event is a
\* member of *eonce.
event_once_cb(st) ==
    [event_loopexit_cb(st) EXCEPT !.released = @ \cup {ExitEvent}]

\* event_base_once(base, -1, EV_TIMEOUT, event_loopexit_cb, base, tv): a
\* timer event is set up at the middle priority and added; when the add
\* fails the event is freed again.
event_base_loopexit(st, tv, clk, nomem, fail) ==
    LET s0 == [st EXCEPT !.ev[ExitEvent] =
                  [ev_events |-> {}, ev_flags |-> {}, ev_timeout |-> 0,
                   ev_res |-> {}, ev_ncalls |-> 0, ev_pncalls |-> FALSE,
                   ev_pri |-> st.base.nactivequeues \div 2],
                         !.released = @ \ {ExitEvent}]
        t  == IF tv = NULL THEN 0 ELSE tv
        s1 == event_add(s0, ExitEvent, t, clk, nomem, fail)
    IN  IF event_add_res(s0, ExitEvent, t, nomem, fail) = 0
        THEN s1
        ELSE [s1 EXCEPT !.released = @ \cup {ExitEvent}]

\* --------------------------------------------------- active-queue drain
\* The queue event_process_active picks: the first non-empty one.
\* A choice of the highest-indexed run-queue that is not empty.
LastActiveQueue(st) ==
    LET ne == {i \in DOMAIN st.base.activequeues : st.base.activequeues[i] # <<>>}
    IN  CHOOSE i \in ne : \A j \in ne : i >= j

FirstActiveQueue(st) ==
    LET ne == {i \in DOMAIN st.base.activequeues : st.base.activequeues[i] # <<>>}
    IN  CHOOSE i \in ne : \A j \in ne : i <= j

\* A head of the loop body that deletes no event.
DrainDequeueKeep(st, e, fail) ==
    LET s1 == event_queue_remove(st, e, EVLIST_ACTIVE)
    IN  [s1 EXCEPT !.ncalls = s1.ev[e].ev_ncalls,
                   !.ev[e].ev_pncalls = TRUE]

\* A head of the loop body that deletes every event.
DrainDequeueDel(st, e, fail) ==
    LET s1 == event_del(st, e, fail)
    IN  [s1 EXCEPT !.ncalls = s1.ev[e].ev_ncalls,
                   !.ev[e].ev_pncalls = TRUE]

\* The head of the loop body: the event leaves the run-queue (a PERSIST
\* event) or every queue (event_del), and ev_pncalls is bound to ncalls.
DrainDequeue(st, e, fail) ==
    LET s1 == IF EV_PERSIST \in st.ev[e].ev_events
              THEN event_queue_remove(st, e, EVLIST_ACTIVE)
              ELSE event_del(st, e, fail)
    IN  [s1 EXCEPT !.ncalls = s1.ev[e].ev_ncalls,
                   !.ev[e].ev_pncalls = TRUE]

\* One turn of while (ncalls): the counter is taken down and written back
\* to ev_ncalls before the callback is called.
DrainInvoke(st, e) ==
    [st EXCEPT !.ncalls = @ - 1, !.ev[e].ev_ncalls = st.ncalls - 1]

DrainUnbind(st, e) == [st EXCEPT !.ev[e].ev_pncalls = FALSE]

\* ------------------------------------------------------------- state
VARIABLES
    ev,             \* the events: [Events -> struct event]
    base,           \* struct event_base
    evsel,          \* the events registered with the backend
    ncalls,         \* the local ncalls of event_process_active
    fault,          \* "none", or how the process ended abnormally
    clock,          \* the reading of the clock gettime uses
    jumped,         \* by how much the wall clock has been set back so far
    armed,          \* under the wall clock, per event in the heap: the
                    \* deadline event_add gave it, the value of jumped at
                    \* that time, by how much that deadline is ahead of
                    \* the loop's time line, and the real time at which
                    \* its duration has elapsed
    use_monotonic,  \* the static use_monotonic
    pc,             \* where event_base_loop stands
    flags,          \* the flags argument of event_base_loop
    activeq,        \* the queue event_process_active drains
    cur,            \* the event whose callback is running
    tv_p,           \* the timeout handed to evsel->dispatch
    ret,            \* what event_base_loop returns
    reactivated,    \* the events of the queue being drained that were made
                    \* active during one of their own callbacks in this
                    \* call of event_process_active
    released        \* the events whose storage has been given to free()

vars == <<ev, base, evsel, ncalls, fault, clock, jumped, armed,
          use_monotonic, pc, flags, activeq, cur, tv_p, ret, reactivated,
          released>>

St == [ev |-> ev, base |-> base, evsel |-> evsel, ncalls |-> ncalls,
       fault |-> fault, released |-> released]

\* A field the code writes before it reads it again is dead: ev_timeout
\* while the event is not in the heap (event_add sets it before the push),
\* ev_res and ev_ncalls while the event is neither in a run-queue nor in its
\* callback sequence (event_active sets both before the insert).  States
\* that differ in dead fields only are one state of the program; Live
\* keeps one of them.
Live(st, running) ==
    [e \in DOMAIN st.ev |->
        [st.ev[e] EXCEPT
            !.ev_timeout = IF EVLIST_TIMEOUT \in st.ev[e].ev_flags THEN @ ELSE 0,
            !.ev_res = IF EVLIST_ACTIVE \in st.ev[e].ev_flags \/ e = running
                       THEN @ ELSE {},
            !.ev_ncalls = IF EVLIST_ACTIVE \in st.ev[e].ev_flags \/ e = running
                          THEN @ ELSE 0]]

\* The memory after a step, with running the event whose callback sequence
\* goes on (NULL: none).
\* By how much a deadline computed now will turn out too early: the time
\* gettime returns may be a cached one that the clock has left behind, and
\* the clock may read less than base->event_tv, a difference the next
\* timeout_correct takes from every deadline in the heap.
Lead ==
    (clock - gettime(St, clock))
        + (IF clock < base.event_tv THEN base.event_tv - clock ELSE 0)

\* A is the set of events whose timer the step has armed with event_add.
CommitArm(st, running, A) ==
    /\ ev' = Live(st, running)
    /\ base' = st.base
    /\ evsel' = st.evsel
    /\ ncalls' = IF running = NULL THEN 0 ELSE st.ncalls
    /\ fault' = st.fault
    /\ released' = st.released
    /\ cur' = running
    /\ armed' = [e \in DOMAIN st.ev |->
                    IF use_monotonic \/ EVLIST_TIMEOUT \notin st.ev[e].ev_flags
                    THEN <<>>
                    ELSE IF e \in A
                    THEN <<st.ev[e].ev_timeout, jumped, Lead,
                           clock + jumped
                               + (st.ev[e].ev_timeout - gettime(St, clock))>>
                    ELSE armed[e]]

Commit(st, running) == CommitArm(st, running, {})

\* event_process_active is between its first TAILQ_FIRST and its return.
InDrain(p) == p \in {"active", "cb", "ret"}

\* The events of R that the step to st leaves in a run-queue.
StillActive(st, R) == {e \in R : EVLIST_ACTIVE \in st.ev[e].ev_flags}

\* The running event, if the step to st links it into the queue being
\* drained.
SelfActivated(st) ==
    IF /\ pc = "cb" /\ cur # NULL
       /\ EVLIST_ACTIVE \notin ev[cur].ev_flags
       /\ EVLIST_ACTIVE \in st.ev[cur].ev_flags
       /\ st.ev[cur].ev_pri = activeq
    THEN {cur} ELSE {}

EventKinds == {{}, {EV_READ}, {EV_PERSIST}, {EV_READ, EV_PERSIST}}

\* event_set and event_base_set on a base fresh from event_base_new
NewEvent(kind, internal) ==
    [ev_events |-> kind,
     ev_flags |-> IF internal THEN {EVLIST_INTERNAL} ELSE {},
     ev_timeout |-> 0,
     ev_res |-> {},
     ev_ncalls |-> 0,
     ev_pncalls |-> FALSE,
     ev_pri |-> 0]

\* event_base_new
NewBase(now) ==
    [event_count |-> 0,
     event_count_active |-> 0,
     nactivequeues |-> 1,
     activequeues |-> [i \in 0..0 |-> <<>>],
     eventqueue |-> <<>>,
     timeheap |-> <<>>,
     event_tv |-> now,
     tv_cache |-> 0,
     event_break |-> FALSE,
     event_gotterm |-> FALSE]

\* The events differ in nothing but their kinds, so one assignment stands
\* for all its permutations: the kinds are listed in the order of KindRank.
KindRank(k) ==
    (IF EV_READ \in k THEN 1 ELSE 0) + (IF EV_PERSIST \in k THEN 2 ELSE 0)

KindsInOrder(f) ==
    \A i, j \in DOMAIN f : i < j => KindRank(f[i].ev_events) <= KindRank(f[j].ev_events)

InitWith(evs, monotonic) ==
    /\ ev = evs
    /\ clock = 1
    /\ jumped = 0
    /\ armed = [e \in DOMAIN evs |-> <<>>]
    /\ base = NewBase(1)
    /\ evsel = {}
    /\ ncalls = 0
    /\ fault = "none"
    /\ use_monotonic = monotonic
    /\ pc = "idle"
    /\ flags = {}
    /\ activeq = 0
    /\ cur = NULL
    /\ tv_p = NULL
    /\ ret = "none"
    /\ reactivated = {}
    /\ released = {}

Init ==
    \E evs \in [Events -> {NewEvent(k, FALSE) : k \in EventKinds}] :
        KindsInOrder(evs) /\ InitWith(evs, TRUE)

\* The program's own code runs between event_base_loop calls and inside
\* callbacks.
UserRuns == pc \in {"idle", "cb"} /\ fault = "none" /\ cur # ExitEvent

UserStepArm(st, A) ==
    /\ CommitArm(st, cur, A)
    /\ reactivated' = StillActive(st, reactivated \cup SelfActivated(st))
    /\ UNCHANGED <<clock, jumped, use_monotonic, pc, flags, activeq, tv_p, ret>>

UserStep(st) == UserStepArm(st, {})

\* ------------------------------------------------------ the API calls
EventAdd(e, tv, nomem, fail) ==
    /\ UserRuns
    /\ UserStepArm(event_add(St, e, tv, clock, nomem, fail),
                   IF tv # NULL /\ event_add_res(St, e, tv, nomem, fail) = 0
                   THEN {e} ELSE {})

EventDel(e, fail) ==
    /\ UserRuns
    /\ UserStep(event_del(St, e, fail))

EventActive(e, res, n) ==
    /\ UserRuns
    /\ UserStep(event_active(St, e, res, n))

EventPrioritySet(e, pri) ==
    /\ UserRuns
    /\ UserStep(event_priority_set(St, e, pri))

\* Called between event_base_loop calls only: inside a drain it would free
\* the queue the drain holds a pointer to.
EventBasePriorityInit(n) ==
    /\ pc = "idle" /\ fault = "none"
    /\ UserStep(event_base_priority_init(St, n))

EventBaseLoopbreak ==
    /\ UserRuns
    /\ UserStep(event_base_loopbreak(St))

\* One exit is scheduled at a time: the event of the one before has run.
EventBaseLoopexit(tv) ==
    /\ UserRuns
    /\ ExitEvent \in DOMAIN ev
    /\ ev[ExitEvent].ev_flags = {}
    /\ UserStepArm(event_base_loopexit(St, tv, clock, FALSE, FALSE), {ExitEvent})

\* ------------------------------------------------------------ the clock
\* Time passes between the calls and while the backend waits (a poll with
\* a zero timeout does not wait).
ClockRuns ==
    /\ pc \in {"idle", "dispatch"} /\ fault = "none"
    /\ pc = "dispatch" => tv_p # 0

Tick ==
    /\ ClockRuns
    /\ clock < MaxTime
    /\ clock' = clock + 1
    /\ UNCHANGED <<ev, base, evsel, ncalls, fault, jumped, armed, use_monotonic,
                   pc, flags, activeq, cur, tv_p, ret, reactivated, released>>

\* The wall clock is set back.
JumpBack ==
    /\ ClockRuns
    /\ ~use_monotonic
    /\ clock > 1
    /\ jumped < MaxJumped
    /\ clock' = clock - 1
    /\ jumped' = jumped + 1
    /\ UNCHANGED <<ev, base, evsel, ncalls, fault, armed, use_monotonic,
                   pc, flags, activeq, cur, tv_p, ret, reactivated, released>>

\* ------------------------------------------------------ event_base_loop
LoopFlags == SUBSET {EVLOOP_ONCE, EVLOOP_NONBLOCK}

\* A return of event_base_loop: its locals are gone.
Return(st, r) ==
    /\ Commit(st, NULL)
    /\ pc' = "returned"
    /\ ret' = r
    /\ flags' = {}
    /\ activeq' = 0
    /\ tv_p' = NULL
    /\ reactivated' = {}
    /\ UNCHANGED <<clock, jumped, use_monotonic>>

\* The exit at the end of the function: the time cache is cleared.
LoopExit(st) == Return([st EXCEPT !.base.tv_cache = 0], OK)

\* A step inside event_base_loop to position p.
Goto(st, p, running, q, t) ==
    /\ Commit(st, running)
    /\ pc' = p
    /\ activeq' = q
    /\ tv_p' = t
    /\ reactivated' = IF InDrain(pc) /\ InDrain(p)
                      THEN StillActive(st, reactivated) ELSE {}
    /\ UNCHANGED <<clock, jumped, use_monotonic, flags, ret>>

EventBaseLoop(f) ==
    /\ pc = "idle" /\ fault = "none"
    /\ flags' = f
    /\ pc' = "loop"
    /\ Commit([St EXCEPT !.base.tv_cache = 0], NULL)
    /\ UNCHANGED <<clock, jumped, use_monotonic, activeq, tv_p, ret, reactivated>>

\* The caller has the result of event_base_loop.
Returned ==
    /\ pc = "returned"
    /\ pc' = "idle"
    /\ ret' = "none"
    /\ UNCHANGED <<ev, base, evsel, ncalls, fault, clock, jumped, armed,
                   use_monotonic, flags, activeq, cur, tv_p, reactivated,
                   released>>

\* The timeout of the poll: zero with active events or EVLOOP_NONBLOCK.
\* A timeout of the poll that does not look at EVLOOP_NONBLOCK.
PollTimeoutBlocking(st, clk, f) ==
    IF st.base.event_count_active = 0 THEN timeout_next(st, clk) ELSE 0

PollTimeout(st, clk, f) ==
    IF st.base.event_count_active = 0 /\ EVLOOP_NONBLOCK \notin f
    THEN timeout_next(st, clk)
    ELSE 0

\* A test that looks at the run-queues only.
event_haveevents_active(st) == st.base.event_count_active > 0

event_haveevents(st) == st.base.event_count > 0

\* A head of the while loop that does not look at event_gotterm.
LoopTopNoTerm ==
    /\ pc = "loop" /\ fault = "none"
    /\ IF base.event_break
       THEN LoopExit([St EXCEPT !.base.event_break = FALSE])
       ELSE LET s1 == timeout_correct(St, clock, use_monotonic)
            IN  IF ~event_haveevents(s1)
                THEN Return(s1, NO_EVENTS)
                ELSE Goto([s1 EXCEPT !.base.event_tv = gettime(s1, clock),
                                     !.base.tv_cache = 0],
                          "dispatch", NULL, 0, PollTimeout(s1, clock, flags))

\* The head of the while loop, up to the call of evsel->dispatch.
LoopTop ==
    /\ pc = "loop" /\ fault = "none"
    /\ IF base.event_gotterm
       THEN LoopExit([St EXCEPT !.base.event_gotterm = FALSE])
       ELSE IF base.event_break
       THEN LoopExit([St EXCEPT !.base.event_break = FALSE])
       ELSE LET s1 == timeout_correct(St, clock, use_monotonic)
            IN  IF ~event_haveevents(s1)
                THEN Return(s1, NO_EVENTS)
                ELSE Goto([s1 EXCEPT !.base.event_tv = gettime(s1, clock),
                                     !.base.tv_cache = 0],
                          "dispatch", NULL, 0, PollTimeout(s1, clock, flags))

\* The sequences of distinct events the backend may report ready.
ReadySeqs(S) ==
    {q \in UNION {[1..n -> S] : n \in 0..Cardinality(S)} :
        \A i, j \in DOMAIN q : i # j => q[i] # q[j]}

RECURSIVE ActivateAll(_, _, _)
ActivateAll(st, q, i) ==
    IF i > Len(q) THEN st
    ELSE ActivateAll(event_active(st, q[i], {EV_READ}, 1), q, i + 1)

\* evsel->dispatch returns: with an error, or after it has activated the
\* ready events; then the time cache is filled.
BackendDispatch(q, fail) ==
    /\ pc = "dispatch" /\ fault = "none"
    /\ IF fail
       THEN Return(St, ERROR)
       ELSE LET s1 == ActivateAll(St, q, 1)
            IN  Goto([s1 EXCEPT !.base.tv_cache = gettime(s1, clock)],
                     "timeout", NULL, 0, NULL)

\* What follows event_process_active in the loop.
AfterDrain(st) ==
    IF st.base.event_count_active = 0 /\ EVLOOP_ONCE \in flags
    THEN LoopExit(st)
    ELSE Goto(st, "loop", NULL, 0, NULL)

\* timeout_process, and the choice between the drain and the next turn.
TimeoutProcess(fail) ==
    /\ pc = "timeout" /\ fault = "none"
    /\ LET s1 == timeout_process(St, clock, fail)
       IN  IF s1.fault # "none"
           THEN Goto(s1, pc, NULL, 0, NULL)
           ELSE IF s1.base.event_count_active # 0
           THEN Goto(s1, "active", NULL, FirstActiveQueue(s1), NULL)
           ELSE IF EVLOOP_NONBLOCK \in flags
           THEN LoopExit(s1)
           ELSE Goto(s1, "loop", NULL, 0, NULL)

\* A drain that ends at the first event that was made active during one of
\* its own callbacks in this drain.
ProcessActiveOnePass(fail) ==
    /\ pc = "active" /\ fault = "none"
    /\ IF \/ base.activequeues[activeq] = <<>>
          \/ Head(base.activequeues[activeq]) \in reactivated
       THEN AfterDrain(St)
       ELSE LET e == Head(base.activequeues[activeq])
                s1 == DrainDequeue(St, e, fail)
            IN  IF s1.ncalls > 0
                THEN Goto(DrainInvoke(s1, e), "cb", e, activeq, NULL)
                ELSE Goto(DrainUnbind(s1, e), "active", NULL, activeq, NULL)

\* for (ev = TAILQ_FIRST(activeq); ev; ...): the next event of the queue
\* is taken off and its first callback called, or the drain ends.
ProcessActive(fail) ==
    /\ pc = "active" /\ fault = "none"
    /\ IF base.activequeues[activeq] = <<>>
       THEN AfterDrain(St)
       ELSE LET e == Head(base.activequeues[activeq])
                s1 == DrainDequeue(St, e, fail)
            IN  IF s1.ncalls > 0
                THEN Goto(DrainInvoke(s1, e), "cb", e, activeq, NULL)
                ELSE Goto(DrainUnbind(s1, e), "active", NULL, activeq, NULL)

\* The callback returns to event_process_active.
CallbackReturn ==
    /\ pc = "cb" /\ fault = "none" /\ cur # ExitEvent
    /\ Goto(St, "ret", cur, activeq, NULL)

\* event_once_cb of the exit event: event_loopexit_cb, and it returns.
EventOnceCb ==
    /\ pc = "cb" /\ fault = "none" /\ cur = ExitEvent
    /\ Goto(event_once_cb(St), "ret", cur, activeq, NULL)

\* A drain that does not look at event_break.
AfterCallbackNoBreak ==
    /\ pc = "ret" /\ fault = "none"
    /\ IF ncalls > 0
       THEN Goto(DrainInvoke(St, cur), "cb", cur, activeq, NULL)
       ELSE Goto(DrainUnbind(St, cur), "active", NULL, activeq, NULL)

\* What a store into the storage of e does: nothing more when the storage
\* is the event's; when it has been given to free() the behaviour is
\* undefined, and the store either goes unnoticed or ends the process.
StoreOutcomes(e) == IF e \in released THEN {"none", "uaf"} ELSE {"none"}

\* After a callback: leave the drain on a break, call again, or go on.
\* ev->ev_pncalls = NULL is stored when the drain is done with the event.
AfterCallback ==
    /\ pc = "ret" /\ fault = "none"
    /\ IF base.event_break
       THEN \E o \in StoreOutcomes(cur) :
                LET s1 == [DrainUnbind(St, cur) EXCEPT !.fault = o]
                IN  IF o = "none" THEN AfterDrain(s1)
                    ELSE Goto(s1, pc, cur, activeq, NULL)
       ELSE IF ncalls > 0
       THEN Goto(DrainInvoke(St, cur), "cb", cur, activeq, NULL)
       ELSE \E o \in StoreOutcomes(cur) :
                LET s1 == [DrainUnbind(St, cur) EXCEPT !.fault = o]
                IN  IF o = "none" THEN Goto(s1, "active", NULL, activeq, NULL)
                    ELSE Goto(s1, pc, cur, activeq, NULL)

\* ------------------------------------------------------ specifications
\* What every specification has: the calls that take no parameter that is
\* bounded, and the steps of event_base_loop.
LoopSteps ==
    \/ EventBaseLoopbreak
    \/ \E f \in LoopFlags : EventBaseLoop(f)
    \/ Returned
    \/ LoopTop
    \/ \E q \in ReadySeqs(evsel), fail \in BOOLEAN : BackendDispatch(q, fail)
    \/ CallbackReturn
    \/ AfterCallback

\* Spec: timers with time passing; one priority level, one call per
\* activation, a backend whose add and del succeed.
Next ==
    \/ LoopSteps
    \/ \E e \in Events, tv \in {NULL} \cup (0..MaxTv) :
           EventAdd(e, tv, FALSE, FALSE)
    \/ \E e \in Events : EventDel(e, FALSE)
    \/ \E e \in Events : EventActive(e, {EV_READ}, 1)
    \/ Tick
    \/ TimeoutProcess(FALSE)
    \/ ProcessActive(FALSE)

Spec == Init /\ [][Next]_vars

\* SpecPrio: several priority levels; timers expire at once.
NextPrio ==
    \/ LoopSteps
    \/ \E e \in Events, tv \in {NULL, 0} : EventAdd(e, tv, FALSE, FALSE)
    \/ \E e \in Events : EventDel(e, FALSE)
    \/ \E e \in Events : EventActive(e, {EV_READ}, 1)
    \/ \E e \in Events, pri \in 0..(MaxPrio - 1) : EventPrioritySet(e, pri)
    \/ \E n \in 1..MaxPrio : EventBasePriorityInit(n)
    \/ TimeoutProcess(FALSE)
    \/ ProcessActive(FALSE)

SpecPrio == Init /\ [][NextPrio]_vars

\* SpecCalls: activations with several calls; timers expire at once.
NextCalls ==
    \/ LoopSteps
    \/ \E e \in Events, tv \in {NULL, 0} : EventAdd(e, tv, FALSE, FALSE)
    \/ \E e \in Events : EventDel(e, FALSE)
    \/ \E e \in Events, n \in 1..MaxNcalls : EventActive(e, {EV_READ}, n)
    \/ TimeoutProcess(FALSE)
    \/ ProcessActive(FALSE)

SpecCalls == Init /\ [][NextCalls]_vars

\* SpecFail: a backend whose add and del may fail, a heap that may not
\* grow, and the internal event of the signal code (EVLIST_INTERNAL, a
\* persistent read event); timers expire at once.
InitInternal ==
    \E evs \in [Events -> {NewEvent(k, FALSE) : k \in EventKinds}
                          \cup {NewEvent({EV_READ, EV_PERSIST}, TRUE)}] :
        KindsInOrder(evs) /\ InitWith(evs, TRUE)

NextFail ==
    \/ LoopSteps
    \/ \E e \in Events, tv \in {NULL, 0}, nomem, fail \in BOOLEAN :
           EventAdd(e, tv, nomem, fail)
    \/ \E e \in Events, fail \in BOOLEAN : EventDel(e, fail)
    \/ \E e \in Events : EventActive(e, {EV_READ}, 1)
    \/ \E fail \in BOOLEAN : TimeoutProcess(fail)
    \/ \E fail \in BOOLEAN : ProcessActive(fail)

SpecFail == InitInternal /\ [][NextFail]_vars

\* SpecExit: event_base_loopexit on a base with priorities, time passing,
\* and events of the caller that wait for a descriptor;
\* event_base_loop runs without flags, the backend does not fail and the
\* number of priorities is not taken down, so that every ev_pri stays in
\* range.  The loop goes on and callbacks return.
InitExit ==
    \E evs \in [Events \cup {ExitEvent} -> {NewEvent(k, FALSE) : k \in EventKinds}] :
        /\ evs[ExitEvent].ev_events = {}
        /\ \A e \in Events : EV_READ \in evs[e].ev_events
        /\ KindsInOrder([e \in Events |-> evs[e]])
        /\ InitWith(evs, TRUE)

NextExit ==
    \/ EventBaseLoop({})
    \/ Returned
    \/ LoopTop
    \/ \E q \in ReadySeqs(evsel) : BackendDispatch(q, FALSE)
    \/ TimeoutProcess(FALSE)
    \/ ProcessActive(FALSE)
    \/ CallbackReturn
    \/ EventOnceCb
    \/ AfterCallback
    \/ \E e \in Events : EventAdd(e, NULL, FALSE, FALSE)
    \/ \E e \in Events : EventDel(e, FALSE)
    \/ \E e \in Events, pri \in 0..(MaxPrio - 1) : EventPrioritySet(e, pri)
    \/ \E n \in 1..MaxPrio :
           n >= base.nactivequeues /\ EventBasePriorityInit(n)
    \/ \E tv \in {NULL} \cup (0..MaxTv) : EventBaseLoopexit(tv)
    \/ Tick

\* The thread inside event_base_loop keeps running: while the call is in
\* progress and no fault has stopped it, the loop, the backend and the
\* callback it is waiting for take their next step, so the position does
\* not stay where it is for ever.
LoopRuns ==
    pc \in {"loop", "dispatch", "timeout", "active", "cb", "ret"} /\ fault = "none"

LoopMoves ==
    /\ LoopRuns
    /\ pc' \in {"loop", "dispatch", "timeout", "active", "cb", "ret", "returned"}

SpecExit == InitExit /\ [][NextExit]_vars /\ WF_pc(LoopMoves)

\* SpecWall: gettime reads the wall clock, which the administrator may set
\* back; timers with time passing, one priority level.
InitWall ==
    \E evs \in [Events -> {NewEvent(k, FALSE) : k \in EventKinds}] :
        KindsInOrder(evs) /\ InitWith(evs, FALSE)

NextWall ==
    \/ EventBaseLoop({})
    \/ Returned
    \/ LoopTop
    \/ \E q \in ReadySeqs(evsel) : BackendDispatch(q, FALSE)
    \/ CallbackReturn
    \/ AfterCallback
    \/ \E e \in Events, tv \in {NULL} \cup (0..MaxTv) :
           EventAdd(e, tv, FALSE, FALSE)
    \/ \E e \in Events : EventDel(e, FALSE)
    \/ Tick
    \/ JumpBack
    \/ TimeoutProcess(FALSE)
    \/ ProcessActive(FALSE)

SpecWall == InitWall /\ [][NextWall]_vars

\* SpecHeap: timers only, under the wall clock; with the exit event the
\* heap holds up to NumEvents + 1 timers.
InitHeap ==
    \E evs \in [Events \cup {ExitEvent} -> {NewEvent({}, FALSE)}] :
        InitWith(evs, FALSE)

NextHeap ==
    \/ EventBaseLoop({})
    \/ Returned
    \/ LoopTop
    \/ BackendDispatch(<<>>, FALSE)
    \/ TimeoutProcess(FALSE)
    \/ ProcessActive(FALSE)
    \/ CallbackReturn
    \/ EventOnceCb
    \/ AfterCallback
    \/ \E e \in Events, tv \in 0..MaxTv : EventAdd(e, tv, FALSE, FALSE)
    \/ \E e \in Events : EventDel(e, FALSE)
    \/ \E tv \in 0..MaxTv : EventBaseLoopexit(tv)
    \/ Tick
    \/ JumpBack

SpecHeap == InitHeap /\ [][NextHeap]_vars

\* ------------------------------------------------------------ helpers
EvFlags(e) == ev[e].ev_flags \cap Queues

IsPersist(e) == EV_PERSIST \in ev[e].ev_events

IsInternal(e) == EVLIST_INTERNAL \in ev[e].ev_flags

NumQueuesOf(e) == Cardinality(EvFlags(e))

RECURSIVE QueueMemberships(_)
QueueMemberships(S) ==
    IF S = {} THEN 0
    ELSE LET x == CHOOSE y \in S : TRUE
         IN  NumQueuesOf(x) + QueueMemberships(S \ {x})

NothingPending ==
    /\ base.eventqueue = <<>>
    /\ base.timeheap = <<>>
    /\ \A i \in DOMAIN base.activequeues : base.activequeues[i] = <<>>

\* ----------------------------------------------------------------- C1
\* C1 as stated: event_count is the number of non-internal events that have
\* EVLIST_INSERTED or EVLIST_TIMEOUT set.
C1_CountsRegisteredEvents ==
    base.event_count =
        Cardinality({e \in Events :
                        /\ ~IsInternal(e)
                        /\ ev[e].ev_flags \cap {EVLIST_INSERTED, EVLIST_TIMEOUT} # {}})

\* C1 amended: event_count is the number of queue memberships of the
\* non-internal events: each of EVLIST_INSERTED, EVLIST_TIMEOUT and
\* EVLIST_ACTIVE that an event has set counts one.
C1_CountsQueueMemberships ==
    base.event_count =
        QueueMemberships({e \in Events : ~IsInternal(e)})

\* Inside a drain, a non-internal event is in two queues and an internal
\* one is in a queue as well.
C1_Witness ==
    /\ pc = "cb"
    /\ \E e \in Events : ~IsInternal(e) /\ NumQueuesOf(e) >= 2
    /\ \E e \in Events : IsInternal(e) /\ NumQueuesOf(e) >= 1

\* ----------------------------------------------------------------- C2
\* C2 as stated: event_base_loop returns 1 (no events) exactly when, as it
\* returns, the registry and the timer heap are empty and no event is
\* active; otherwise it returns 0 or -1.
C2_NoEventsIffNothingPending ==
    pc = "returned" =>
        /\ ret \in {OK, NO_EVENTS, ERROR}
        /\ ret = NO_EVENTS <=> NothingPending

\* C2 amended: event_base_loop returns 1 only if no event is in the
\* registry, the heap or a run-queue, and it does so exactly when the head
\* of the loop finds event_count at 0 with no termination flag set; a call
\* that ends otherwise returns 0 or -1, also when nothing is pending.
C2_NoEventsOnlyIfNothingPending ==
    /\ [](pc = "returned" =>
            /\ ret \in {OK, NO_EVENTS, ERROR}
            /\ ret = NO_EVENTS => NothingPending)
    /\ [][pc' = "returned" =>
            (ret' = NO_EVENTS <=>
                /\ pc = "loop"
                /\ ~base.event_gotterm /\ ~base.event_break
                /\ base.event_count = 0)]_vars

\* event_base_loop has run an iteration (the time cache is filled), has
\* found nothing left at the head of the next one and returns 1.
C2_Witness ==
    /\ pc = "returned"
    /\ ret = NO_EVENTS
    /\ base.tv_cache # 0
    /\ NothingPending

\* ----------------------------------------------------------------- C3
\* The loop calls a callback: the first of an event's sequence, or the
\* next one after the callback before it has returned.
Invokes == pc' = "cb" /\ pc \in {"active", "ret"}

LowerQueuesEmpty(b, pri) ==
    \A i \in DOMAIN b.activequeues : i < pri => b.activequeues[i] = <<>>

\* C3 as stated: a drain calls callbacks of one priority level only, the
\* lowest-indexed non-empty one, and whenever a callback of priority p is
\* called every run-queue of a lower index is empty, also when callbacks
\* of the drain have activated other events.
C3_LowerQueuesEmptyAtEveryCallback ==
    [][Invokes =>
         /\ ev'[cur'].ev_pri = activeq
         /\ LowerQueuesEmpty(base', ev'[cur'].ev_pri)]_vars

\* C3 amended: the level of a drain is the lowest-indexed run-queue that
\* is non-empty when the drain starts and stays the same until the drain
\* ends; every callback the drain calls is of an event of that level; the
\* lower-indexed queues are empty when the drain starts, and what callbacks
\* put there during the drain waits for the next iteration.
C3_LowestQueueWhenDrainStarts ==
    /\ [][pc = "timeout" /\ pc' = "active" =>
            /\ base'.activequeues[activeq'] # <<>>
            /\ LowerQueuesEmpty(base', activeq')]_vars
    /\ [][(pc \in {"active", "cb", "ret"} /\ pc' \in {"active", "cb", "ret"}) =>
            activeq' = activeq]_vars
    /\ [][Invokes => ev'[cur'].ev_pri = activeq]_vars

\* A callback of the second level runs while an event of the first level
\* is active.
C3_Witness ==
    /\ pc = "cb"
    /\ activeq = 1
    /\ ev[cur].ev_pri = 1
    /\ 0 \in DOMAIN base.activequeues
    /\ base.activequeues[0] # <<>>

\* ----------------------------------------------------------------- C4
\* A drain ends with its run-queue empty.
DrainEnds == pc = "active" /\ base.activequeues[activeq] = <<>>

\* C4: with EVLOOP_ONCE, event_base_loop returns after the iteration that
\* ran callbacks, also when events of a lower priority are still active:
\* the end of the first drain is the end of the call.
C4_OnceReturnsAfterOneDrain ==
    [][(EVLOOP_ONCE \in flags /\ DrainEnds) => pc' = "returned"]_vars

\* ----------------------------------------------------------------- C5
NonblockPollsWithZero ==
    (pc = "dispatch" /\ EVLOOP_NONBLOCK \in flags) => tv_p = 0

\* C5 as stated: with EVLOOP_NONBLOCK the backend is always called with a
\* zero timeout, and event_base_loop returns after one call of the
\* backend, whether or not events became active: the head of the loop is
\* not reached again, unless to end the call there.
C5_NonblockReturnsAfterOnePoll ==
    /\ []NonblockPollsWithZero
    /\ [][(EVLOOP_NONBLOCK \in flags /\ pc # "idle" /\ pc' = "loop") =>
            \/ base'.event_break
            \/ base'.event_gotterm
            \/ ~event_haveevents(St')]_vars

\* C5 amended: with EVLOOP_NONBLOCK the backend is always called with a
\* zero timeout; the call returns 0 after the first poll and timer drain
\* that leave no event active, and while events are active it drains one
\* level and goes back to the head of the loop.
C5_NonblockReturnsWhenNothingActive ==
    /\ []NonblockPollsWithZero
    /\ [][(EVLOOP_NONBLOCK \in flags /\ pc = "timeout" /\ fault' = "none") =>
            IF base'.event_count_active = 0
            THEN pc' = "returned" /\ ret' = OK
            ELSE pc' = "active"]_vars
    /\ [][(EVLOOP_NONBLOCK \in flags /\ DrainEnds) =>
            IF base.event_count_active = 0 /\ EVLOOP_ONCE \in flags
            THEN pc' = "returned" /\ ret' = OK
            ELSE pc' = "loop"]_vars

\* The backend is about to be polled without blocking although the only
\* thing pending is a timer that is not yet due.
C5_Witness ==
    /\ pc = "dispatch"
    /\ EVLOOP_NONBLOCK \in flags
    /\ tv_p = 0
    /\ base.event_count_active = 0
    /\ base.timeheap # <<>>
    /\ timeout_next(St, clock) > 0

\* ----------------------------------------------------------------- C6
\* C6: when a callback has called event_base_loopbreak, the drain ends
\* with the return of that callback: no other callback is called, the
\* other active events stay in their run-queues, and event_base_loop
\* returns 0 from the head of the loop (or at once) without calling the
\* backend again, with the flag cleared there; a later call that neither
\* fails nor is broken does not return while an event is active, and its
\* drain calls the callback of the event at the head of the queue.
C6_BreakEndsDrainAndKeepsActive ==
    /\ [][(pc = "ret" /\ base.event_break) =>
            /\ pc' \in {"loop", "returned"}
            /\ base'.activequeues = base.activequeues
            /\ \A e \in Events : EvFlags(e)' = EvFlags(e)
            /\ pc' = "returned" => ret' = OK]_vars
    /\ [][(pc = "loop" /\ base.event_break) =>
            /\ pc' = "returned"
            /\ ret' = OK
            /\ base'.activequeues = base.activequeues
            /\ base.event_gotterm \/ ~base'.event_break]_vars
    /\ [][(pc' = "returned" /\ base'.event_count_active > 0) =>
            \/ ret' = ERROR
            \/ pc = "loop" /\ (base.event_break \/ base.event_gotterm)]_vars
    /\ [][(pc = "active" /\ base.activequeues[activeq] # <<>>) =>
            /\ cur' = Head(base.activequeues[activeq])
            /\ pc' = "cb"]_vars

\* A callback that has called event_base_loopbreak has returned while
\* another event of its level is still in the run-queue.
C6_Witness ==
    /\ pc = "ret"
    /\ base.event_break
    /\ base.activequeues[activeq] # <<>>

\* ----------------------------------------------------------------- C7
\* A step of event_base_loop itself, not a call made by the user.
LoopStep == ~(pc' = pc /\ pc \in {"idle", "cb"})

Registered(e) == EVLIST_INSERTED \in ev[e].ev_flags /\ e \in evsel

PersistIO(e) == IsPersist(e) /\ HasIO(St, e)

\* C7 as stated: a PERSIST event with an fd or signal interest that is
\* registered stays registered (EVLIST_INSERTED, known to the backend)
\* through everything the loop does to activate it and to call its
\* callback, whether the cause is readiness or the expiry of its own
\* timeout; the drain takes EVLIST_ACTIVE from it and nothing else.
C7_PersistStaysRegistered ==
    [][\A e \in Events :
          (LoopStep /\ PersistIO(e) /\ Registered(e)) => Registered(e)']_vars

\* C7 amended: the backend's activation and the drain leave a PERSIST
\* event registered, the drain taking EVLIST_ACTIVE only; the timer drain
\* deletes an event whose timeout is due before it activates it, so that
\* such an event is neither EVLIST_INSERTED nor known to the backend when
\* its callback runs.
C7_PersistStaysRegisteredButForExpiry ==
    /\ [][\A e \in Events :
            (LoopStep /\ pc # "timeout" /\ PersistIO(e) /\ Registered(e))
                => Registered(e)']_vars
    /\ [][(pc = "active" /\ pc' = "cb" /\ IsPersist(cur')) =>
            ev'[cur'].ev_flags = ev[cur'].ev_flags \ {EVLIST_ACTIVE}]_vars
    /\ [][\A e \in Events :
            (/\ pc = "timeout" /\ fault' = "none"
             /\ EVLIST_TIMEOUT \in ev[e].ev_flags
             /\ ev[e].ev_timeout <= gettime(St, clock))
                => /\ EvFlags(e)' = {EVLIST_ACTIVE}
                   /\ e \notin evsel'
                   /\ ev'[e].ev_res = {EV_TIMEOUT}]_vars

\* The callback of a PERSIST event runs for readiness while the event is
\* registered and its timer is pending.
C7_Witness ==
    /\ pc = "cb"
    /\ PersistIO(cur)
    /\ EV_READ \in ev[cur].ev_res
    /\ Registered(cur)
    /\ EVLIST_TIMEOUT \in ev[cur].ev_flags
    /\ ev[cur].ev_ncalls = 0

\* ----------------------------------------------------------------- C8
NoQueueIn(evs, e) == evs[e].ev_flags \cap Queues = {}

InHeapOf(b, e) == \E i \in 1..Len(b.timeheap) : b.timeheap[i] = e

\* The loop starts the callback sequence of an event only once per add:
\* the start leaves a non-PERSIST event in no queue, out of the backend
\* and out of the heap, the loop registers nothing by itself, and it
\* activates only what is registered or in the heap.
StartedOncePerAdd ==
    /\ [][(pc = "active" /\ pc' = "cb" /\ ~IsPersist(cur')) =>
            /\ NoQueueIn(ev', cur')
            /\ cur' \notin evsel'
            /\ ~InHeapOf(base', cur')]_vars
    /\ [][LoopStep => \A e \in Events :
            /\ e \in evsel' => e \in evsel
            /\ InHeapOf(base', e) => InHeapOf(base, e)
            /\ (EVLIST_ACTIVE \in ev'[e].ev_flags
                /\ EVLIST_ACTIVE \notin ev[e].ev_flags)
                   => (e \in evsel \/ InHeapOf(base, e))]_vars

LinkedNowhere(st, e) ==
    /\ \A i \in 1..Len(st.base.eventqueue) : st.base.eventqueue[i] # e
    /\ \A i \in 1..Len(st.base.timeheap) : st.base.timeheap[i] # e
    /\ \A q \in DOMAIN st.base.activequeues :
           \A i \in 1..Len(st.base.activequeues[q]) :
               st.base.activequeues[q][i] # e

DelClearsEverything ==
    \A e \in Events, fail \in BOOLEAN :
        LET d == event_del(St, e, fail)
        IN  /\ NoQueueIn(d.ev, e)
            /\ LinkedNowhere(d, e)
            /\ d.fault = "none"

\* C9 as stated: event_del leaves the event with none of the three flags
\* and linked nowhere, whatever flags it had; event_add followed by
\* event_del gives the event the flags it had before the add; event_del
\* of an event with none of the flags changes nothing and returns 0.
C9_AddDelRestoresFlags ==
    UserRuns =>
        /\ DelClearsEverything
        /\ \A e \in Events, tv \in {NULL} \cup (0..MaxTv) :
               LET a == event_add(St, e, tv, clock, FALSE, FALSE)
               IN  event_del(a, e, FALSE).ev[e].ev_flags = ev[e].ev_flags
        /\ \A e \in Events, fail \in BOOLEAN :
               NoQueueIn(ev, e) =>
                   /\ event_del(St, e, fail) = St
                   /\ event_del_res(St, e, fail) = 0

\* C9 amended: event_del leaves the event with none of the three flags and
\* linked nowhere, whatever flags it had; event_add followed by event_del
\* gives back the flags the event had before the add when these were none
\* of the three; event_del of an event with none of the flags returns 0
\* and changes nothing but the count of the calls that are left of the
\* callback sequence of the event, which it sets to 0.
C9_DelClearsFlags ==
    UserRuns =>
        /\ DelClearsEverything
        /\ \A e \in Events, tv \in {NULL} \cup (0..MaxTv) :
               LET a == event_add(St, e, tv, clock, FALSE, FALSE)
                   d == event_del(a, e, FALSE)
               IN  /\ NoQueueIn(d.ev, e)
                   /\ NoQueueIn(ev, e) => d.ev[e].ev_flags = ev[e].ev_flags
        /\ \A e \in Events, fail \in BOOLEAN :
               NoQueueIn(ev, e) =>
                   /\ event_del(St, e, fail) =
                          [St EXCEPT !.ncalls =
                              IF ev[e].ev_ncalls # 0 /\ ev[e].ev_pncalls
                              THEN 0 ELSE @]
                   /\ event_del_res(St, e, fail) = 0

\* Inside the callback of an event that has no flag and calls left, while
\* another event is registered, armed and active.
C9_Witness ==
    /\ pc = "cb"
    /\ NoQueueIn(ev, cur)
    /\ ncalls > 0
    /\ \E e \in Events : EvFlags(e) = Queues

\* ---------------------------------------------------------------- C10
Occurrences(q, e) == Cardinality({i \in 1..Len(q) : q[i] = e})

HeapHoldsTheArmed ==
    \A e \in Events :
        Occurrences(base.timeheap, e) =
            IF EVLIST_TIMEOUT \in ev[e].ev_flags THEN 1 ELSE 0

\* C10: event_add with a timeout of an event that has EVLIST_TIMEOUT set
\* makes its deadline now + timeout and leaves the size of the heap as it
\* was, with one entry for the event; the deadline it had does not fire
\* it: a timer drain at once leaves it armed unless the new timeout is 0,
\* and the timer drain fires only what is due by the deadline it has.
\* The heap has one entry for each armed event and no other, so that a
\* PERSIST timer that adds itself again in its callback is the one entry.
C10_ReAddReplacesDeadline ==
    /\ []HeapHoldsTheArmed
    /\ [](UserRuns =>
            \A e \in Events, tv \in 0..MaxTv :
                EVLIST_TIMEOUT \in ev[e].ev_flags =>
                    LET a == event_add(St, e, tv, clock, FALSE, FALSE)
                        t == timeout_process(a, clock, FALSE)
                    IN  /\ a.fault = "none"
                        /\ a.ev[e].ev_timeout = gettime(St, clock) + tv
                        /\ EVLIST_TIMEOUT \in a.ev[e].ev_flags
                        /\ Len(a.base.timeheap) = Len(base.timeheap)
                        /\ Occurrences(a.base.timeheap, e) = 1
                        /\ \A i \in 1..Len(a.base.timeheap) :
                               a.ev[a.base.timeheap[1]].ev_timeout
                                   <= a.ev[a.base.timeheap[i]].ev_timeout
                        /\ tv > 0 => EVLIST_TIMEOUT \in t.ev[e].ev_flags)
    /\ [][\A e \in Events :
            (/\ pc = "timeout"
             /\ EVLIST_TIMEOUT \in ev[e].ev_flags
             /\ EVLIST_TIMEOUT \notin ev'[e].ev_flags)
                => ev[e].ev_timeout <= base.tv_cache]_vars

\* A PERSIST timer has added itself again in the callback of its expiry:
\* it is the one entry of the heap, with a deadline that is not yet due.
C10_Witness ==
    /\ pc = "cb"
    /\ IsPersist(cur) /\ ~HasIO(St, cur)
    /\ EV_TIMEOUT \in ev[cur].ev_res
    /\ base.timeheap = <<cur>>
    /\ ev[cur].ev_timeout > gettime(St, clock)

\* ---------------------------------------------------------------- C11
AddFails(e, tv, nomem, fail) ==
    \/ tv # NULL /\ EVLIST_TIMEOUT \notin ev[e].ev_flags /\ nomem
    \/ /\ HasIO(St, e)
       /\ ev[e].ev_flags \cap {EVLIST_INSERTED, EVLIST_ACTIVE} = {}
       /\ fail

\* C11: event_add returns -1 when the heap cannot be reserved or the
\* backend refuses the event, and only then; such a call leaves the flags
\* and the deadline of the event, the registry, the heap, the run-queues,
\* event_count and event_count_active, and all the rest, as they were,
\* with a timeout or without.
C11_FailedAddChangesNothing ==
    UserRuns =>
        \A e \in Events, tv \in {NULL} \cup (0..MaxTv), nomem, fail \in BOOLEAN :
            /\ event_add_res(St, e, tv, nomem, fail) = -1
                   <=> AddFails(e, tv, nomem, fail)
            /\ AddFails(e, tv, nomem, fail) =>
                   event_add(St, e, tv, clock, nomem, fail) = St

\* Inside a callback an event that the backend does not know could be
\* added, with a timer that would have to be armed again, while another
\* event is registered.
C11_Witness ==
    /\ pc = "cb"
    /\ \E e \in Events :
           /\ HasIO(St, e)
           /\ ev[e].ev_flags \cap {EVLIST_INSERTED, EVLIST_ACTIVE} = {}
           /\ AddFails(e, 0, FALSE, TRUE)
    /\ base.eventqueue # <<>>
    /\ base.timeheap # <<>>

\* ---------------------------------------------------------------- C12
\* C12 as stated: when the backend fails to unregister an event that is
\* EVLIST_INSERTED, event_del returns the error and has changed nothing:
\* flags, registry, heap, run-queues and event_count are as before.
C12_FailedDelChangesNothing ==
    UserRuns =>
        \A e \in Events :
            EVLIST_INSERTED \in ev[e].ev_flags =>
                /\ event_del_res(St, e, TRUE) = -1
                /\ event_del(St, e, TRUE) = St

\* C12 amended: when the backend fails to unregister an event that is
\* EVLIST_INSERTED, event_del returns the error after it has taken the
\* event out of the heap, its run-queue and the registry: the event has
\* none of the three flags, event_count is down by the number of queues
\* it was in, the other events and what the backend knows are as before.
C12_FailedDelStillRemoves ==
    UserRuns =>
        \A e \in Events :
            EVLIST_INSERTED \in ev[e].ev_flags =>
                LET d == event_del(St, e, TRUE)
                IN  /\ event_del_res(St, e, TRUE) = -1
                    /\ NoQueueIn(d.ev, e)
                    /\ LinkedNowhere(d, e)
                    /\ d.base.event_count = base.event_count -
                           (IF IsInternal(e) THEN 0 ELSE NumQueuesOf(e))
                    /\ d.base.event_count_active = base.event_count_active -
                           (IF EVLIST_ACTIVE \in ev[e].ev_flags THEN 1 ELSE 0)
                    /\ d.evsel = evsel
                    /\ \A o \in Events \ {e} : d.ev[o] = ev[o]

\* The backend knows an event that is in no queue: a deletion that the
\* backend refused has been made, and another event is registered.
C12_Witness ==
    /\ pc = "idle"
    /\ \E e \in Events : e \in evsel /\ NoQueueIn(ev, e)
    /\ \E e \in Events : EVLIST_INSERTED \in ev[e].ev_flags

\* ---------------------------------------------------------------- C13
\* C13: a callback that calls event_del of its own event ends the callback
\* sequence of the event, whatever it has done before: the deletion
\* leaves no call in the counter of event_process_active, which is what
\* the drain looks at when the callback has returned.
C13_DelInCallbackEndsSequence ==
    pc = "cb" =>
        \A fail \in BOOLEAN : event_del(St, cur, fail).ncalls = 0

\* ---------------------------------------------------------------- C14
IsActive(evs, e) == EVLIST_ACTIVE \in evs[e].ev_flags

\* a is linked before b in a run-queue of b_.
Before(b_, a, b) ==
    \E q \in DOMAIN b_.activequeues :
        \E i, j \in 1..Len(b_.activequeues[q]) :
            /\ i < j
            /\ b_.activequeues[q][i] = a
            /\ b_.activequeues[q][j] = b

SameQueue(b_, a, b) == Before(b_, a, b) \/ Before(b_, b, a)

\* The timer drain is about to run and the timeout of e is due.
DueNow(e) ==
    /\ pc = "timeout"
    /\ EVLIST_TIMEOUT \in ev[e].ev_flags
    /\ ev[e].ev_timeout <= gettime(St, clock)

DrainTakesHead ==
    [][(pc = "active" /\ base.activequeues[activeq] # <<>>) =>
         (pc' = "cb" /\ cur' = Head(base.activequeues[activeq]))]_vars

\* C14 as stated: of two events of one priority level, the one that was
\* active first has its callback called first if both are still active
\* when the drain comes to them: no step puts an event that is and stays
\* active behind one that was behind it or that becomes active, so that
\* an event the backend has made ready is before the timers that expire
\* in the same iteration; the drain takes the head of the queue.
C14_FirstActiveRunsFirst ==
    /\ [][\A a, b \in Events :
            (/\ a # b
             /\ IsActive(ev, a) /\ IsActive(ev', a) /\ IsActive(ev', b)
             /\ Before(base, a, b) \/ ~IsActive(ev, b)
             /\ SameQueue(base', a, b))
                => Before(base', a, b)]_vars
    /\ DrainTakesHead

\* C14 amended: the order is that of the last linking.  An event whose
\* own timeout is due is taken out of its run-queue by the timer drain
\* and linked again at the tail; but for that, no step puts an event that
\* is and stays active behind one that was behind it or that becomes
\* active; the drain takes the head of the queue.
C14_LastLinkedRunsLast ==
    /\ [][\A a, b \in Events :
            (/\ a # b
             /\ IsActive(ev, a) /\ IsActive(ev', a) /\ IsActive(ev', b)
             /\ Before(base, a, b) \/ ~IsActive(ev, b)
             /\ SameQueue(base', a, b)
             /\ ~DueNow(a))
                => Before(base', a, b)]_vars
    /\ [][\A a, b \in Events :
            (/\ a # b
             /\ IsActive(ev, a) /\ DueNow(a) /\ fault' = "none"
             /\ IsActive(ev', b)
             /\ SameQueue(base', a, b)
             /\ ~DueNow(b))
                => Before(base', b, a)]_vars
    /\ DrainTakesHead

\* The drain is about to start with an event that the backend has made
\* ready before a timer that has expired in the same iteration.
C14_Witness ==
    /\ pc = "active"
    /\ \E a, b \in Events :
           /\ Before(base, a, b)
           /\ HasIO(St, a) /\ ev[a].ev_res = {EV_READ}
           /\ ~HasIO(St, b) /\ ev[b].ev_res = {EV_TIMEOUT}

\* ---------------------------------------------------------------- C15
\* event_base_loop runs and the timer of the scheduled exit is due.
ExitDue ==
    /\ pc \notin {"idle", "returned"}
    /\ ExitEvent \in DOMAIN ev
    /\ EVLIST_TIMEOUT \in ev[ExitEvent].ev_flags
    /\ ev[ExitEvent].ev_timeout <= clock

ReturnedOK == pc = "returned" /\ ret = OK

\* The exit event is active behind a run-queue of a lower index that is
\* not empty.
ExitStarved ==
    /\ ExitEvent \in DOMAIN ev
    /\ EVLIST_ACTIVE \in ev[ExitEvent].ev_flags
    /\ ~LowerQueuesEmpty(base, ev[ExitEvent].ev_pri)

\* event_gotterm ends event_base_loop at the head of the loop with 0, and
\* the events of the caller are as they were, registered if they were.
ExitLeavesOthers ==
    [][(pc = "loop" /\ base.event_gotterm) =>
         /\ pc' = "returned" /\ ret' = OK
         /\ ~base'.event_gotterm
         /\ \A e \in Events : ev'[e] = ev[e]
         /\ evsel' = evsel
         /\ base'.eventqueue = base.eventqueue]_vars

\* The store of the drain into the released exit event has ended the
\* process.
StoreCrashed == fault = "uaf"

InHeap(e) == EVLIST_TIMEOUT \in ev[e].ev_flags

\* Real time is what the wall clock would show had it never been set back.
RealNow == clock + jumped

\* The real time at which the duration requested in event_add has elapsed.
RealDue(e) == armed[e][4]

PendingAtJump(e) == InHeap(e) /\ jumped > armed[e][2]

\* By how much the time event_add read for e was ahead of the clock: a
\* cached time, taken before the clock was set back.
Ahead(e) ==
    IF armed[e][1] + armed[e][2] > armed[e][4]
    THEN armed[e][1] + armed[e][2] - armed[e][4] ELSE 0

\* C16 as stated: in wall-clock mode a timer that was pending when the
\* clock was set back fires once the requested duration of real time has
\* elapsed: at every timer drain reached at or after that real time its
\* deadline has been reached, whenever in the cycle the jump happened.
C16_JumpNeverDelays ==
    pc = "timeout" =>
        \A e \in Events :
            PendingAtJump(e) /\ RealDue(e) <= RealNow
                => ev[e].ev_timeout <= gettime(St, clock)

\* The head of an iteration reads a time below the one it remembers.
SeesJump ==
    /\ pc = "loop" /\ fault = "none" /\ ~use_monotonic
    /\ ~base.event_gotterm /\ ~base.event_break
    /\ gettime(St, clock) < base.event_tv

\* C16 amended: the loop notices a jump only at the head of an iteration,
\* when the time it reads is below event_tv, and then takes event_tv - now
\* from every deadline in the heap; a pending timer is never delayed by
\* more than the clock has been set back since it was added, and by how
\* much the time event_add read was ahead of the clock.
C16_JumpDelaysAtMostByItsSize ==
    /\ [](\A e \in Events :
            InHeap(e) =>
                ev[e].ev_timeout + jumped - RealDue(e)
                    <= jumped - armed[e][2] + Ahead(e))
    /\ [][SeesJump =>
            \A e \in Events :
                InHeap(e) =>
                    ev'[e].ev_timeout
                        = ev[e].ev_timeout - (base.event_tv - gettime(St, clock))]_vars
    /\ [][(pc = "loop" /\ ~SeesJump) =>
            \A e \in Events : InHeap(e) => ev'[e].ev_timeout = ev[e].ev_timeout]_vars

\* A jump has been noticed and the deadline of a pending timer corrected.
C16_Witness ==
    \E e \in Events :
        PendingAtJump(e) /\ ev[e].ev_timeout < armed[e][1] /\ pc = "dispatch"

\* ------------------------------------------------------------------ C17
\* The place of e in the run-queue it is linked in (0: in none).
QueueIndex(b_, e) ==
    IF \E q \in DOMAIN b_.activequeues :
           \E i \in 1..Len(b_.activequeues[q]) : b_.activequeues[q][i] = e
    THEN CHOOSE i \in 1..Len(b_.activequeues[0]) + NumEvents + 1 :
             \E q \in DOMAIN b_.activequeues :
                 i <= Len(b_.activequeues[q]) /\ b_.activequeues[q][i] = e
    ELSE 0

\* event_active on an ACTIVE event adds the cause to ev_res and changes
\* nothing else: not the pending calls, not a queue, not another event.
ActiveCollects ==
    \A e \in Events :
        IsActive(ev, e) =>
            \A res \in SUBSET {EV_READ, EV_TIMEOUT}, n \in 1..MaxNcalls :
                event_active(St, e, res, n)
                    = [St EXCEPT !.ev[e].ev_res = @ \cup res]

\* What a step of the loop that activates events does to an active one:
\* the causes add up, the pending calls and the place in the queue stay.
KeepsActive(e) ==
    /\ IsActive(ev', e)
    /\ ev[e].ev_res \subseteq ev'[e].ev_res
    /\ ev'[e].ev_ncalls = ev[e].ev_ncalls
    /\ QueueIndex(base', e) = QueueIndex(base, e)

\* C17 as stated: an event triggered by several causes before its callback
\* runs, as by the backend reporting READ and by its own timeout expiring
\* in the same iteration, is called once with the union of the causes in
\* its mask, and the activation of an ACTIVE event does not move it in its
\* run-queue.
C17_CausesAddUp ==
    /\ []ActiveCollects
    /\ [][\A e \in Events :
            (pc \in {"dispatch", "timeout"} /\ fault' = "none" /\ IsActive(ev, e))
                => KeepsActive(e)]_vars

\* C17 amended: the causes add up and the place stays when event_active
\* finds the event ACTIVE, as the backend's reports do; the timer drain
\* first deletes an event whose own timeout is due, so that an ACTIVE one
\* loses the causes it had, is unregistered and is linked again at the tail
\* with TIMEOUT alone and one call; the other active events keep their
\* causes and their order.
C17_CausesAddUpButForExpiry ==
    /\ []ActiveCollects
    /\ [][\A e \in Events :
            (pc = "dispatch" /\ fault' = "none" /\ IsActive(ev, e))
                => KeepsActive(e)]_vars
    /\ [][\A e \in Events :
            (pc = "timeout" /\ fault' = "none" /\ IsActive(ev, e) /\ ~DueNow(e))
                => /\ IsActive(ev', e)
                   /\ ev'[e].ev_res = ev[e].ev_res
                   /\ ev'[e].ev_ncalls = ev[e].ev_ncalls
                   /\ QueueIndex(base', e) <= QueueIndex(base, e)
                   /\ \A b \in Events :
                          (b # e /\ DueNow(b) /\ SameQueue(base', e, b))
                              => Before(base', e, b)]_vars
    /\ [][\A e \in Events :
            (fault' = "none" /\ IsActive(ev, e) /\ DueNow(e))
                => /\ IsActive(ev', e)
                   /\ ev'[e].ev_res = {EV_TIMEOUT}
                   /\ ev'[e].ev_ncalls = 1
                   /\ e \notin evsel']_vars

\* An active event has collected a second cause.
C17_Witness ==
    \E e \in Events :
        IsActive(ev, e) /\ ev[e].ev_res = {EV_READ, EV_TIMEOUT}

\* ------------------------------------------------------------------ C18
\* The deadline of e has come at the time now.
Expired(e, now) == InHeap(e) /\ ev[e].ev_timeout <= now

\* C18: after timeout_process at the time now, whether or not the backend
\* lets the events go, every event whose deadline was <= now is out of the
\* heap and of the registry and is ACTIVE with TIMEOUT in its mask and one
\* pending call, every event left in the heap has a deadline > now and is
\* as it was, and of two expired timers of one priority the one with the
\* smaller deadline is linked first in the run-queue.
C18_DrainActivatesTheExpired ==
    (pc = "timeout" /\ fault = "none") =>
        \A fail \in BOOLEAN :
            LET now == gettime(St, clock)
                s == timeout_process(St, clock, fail)
            IN  /\ s.fault = "none"
                /\ \A e \in Events :
                       Expired(e, now) =>
                           /\ ~InHeapOf(s.base, e)
                           /\ \A i \in 1..Len(s.base.eventqueue) :
                                  s.base.eventqueue[i] # e
                           /\ s.ev[e].ev_flags \cap Queues = {EVLIST_ACTIVE}
                           /\ QueueIndex(s.base, e) > 0
                           /\ EV_TIMEOUT \in s.ev[e].ev_res
                           /\ s.ev[e].ev_ncalls = 1
                /\ \A e \in Events :
                       InHeapOf(s.base, e) =>
                           /\ s.ev[e].ev_timeout > now
                           /\ s.ev[e] = ev[e]
                /\ \A a, b \in Events :
                       (/\ Expired(a, now) /\ Expired(b, now)
                        /\ ev[a].ev_pri = ev[b].ev_pri
                        /\ ev[a].ev_timeout < ev[b].ev_timeout)
                           => Before(s.base, a, b)

\* The drain is about to run with two expired timers of different
\* deadlines, the later of them already ACTIVE from the backend's report.
C18_Witness ==
    /\ pc = "timeout" /\ fault = "none"
    /\ \E a, b \in Events :
           /\ Expired(a, gettime(St, clock)) /\ Expired(b, gettime(St, clock))
           /\ ev[a].ev_timeout < ev[b].ev_timeout
           /\ IsActive(ev, b)

\* ------------------------------------------------------------------ C19
\* Every timer in the heap is at least as late as its parent.
HeapOrdered(b_, evs) ==
    \A i \in 2..Len(b_.timeheap) :
        evs[b_.timeheap[i \div 2]].ev_timeout <= evs[b_.timeheap[i]].ev_timeout

TopIsEarliest(b_, evs) ==
    \A i \in 1..Len(b_.timeheap) :
        evs[b_.timeheap[1]].ev_timeout <= evs[b_.timeheap[i]].ev_timeout

\* C19: in every reachable state the deadline at the top of the timer heap
\* is <= the deadline of every other event in it; the correction for a
\* wall clock set back takes the same offset from every deadline in the
\* heap, so it keeps the order of any two deadlines and leaves the array of
\* the heap as it is, and the heap is still ordered.
C19_HeapTopIsEarliest ==
    /\ [](TopIsEarliest(base, ev) /\ HeapOrdered(base, ev))
    /\ [][(pc = "loop" /\ fault = "none") =>
            /\ base'.timeheap = base.timeheap
            /\ \A a, b \in DOMAIN ev :
                   (InHeapOf(base, a) /\ InHeapOf(base, b)) =>
                       ev'[a].ev_timeout - ev'[b].ev_timeout
                           = ev[a].ev_timeout - ev[b].ev_timeout]_vars

\* A correction has moved the deadlines of a heap of three timers, two of
\* them with different deadlines.
C19_Witness ==
    /\ pc = "dispatch"
    /\ Len(base.timeheap) = NumEvents + 1
    /\ \E a, b \in DOMAIN ev :
           /\ InHeapOf(base, a) /\ InHeapOf(base, b)
           /\ ev[a].ev_timeout < ev[b].ev_timeout
           /\ ev[a].ev_timeout < armed[a][1]
           /\ ev[b].ev_timeout < armed[b][1]

\* ------------------------------------------------------------------ C20
\* In how many places of the run-queues e is linked.
RunQueueLinks(b_, e) ==
    Cardinality({<<q, i>> \in (DOMAIN b_.activequeues) \X (1..NumEvents) :
                    i <= Len(b_.activequeues[q]) /\ b_.activequeues[q][i] = e})

LinkedAtItsPriority(e) ==
    /\ ev[e].ev_pri \in DOMAIN base.activequeues
    /\ \E i \in 1..Len(base.activequeues[ev[e].ev_pri]) :
           base.activequeues[ev[e].ev_pri][i] = e

\* C20: in every reachable state an event has ACTIVE set if and only if it
\* is linked in exactly one run-queue, that queue is the one of its
\* priority, no event is linked in two run-queues, and event_count_active
\* is the number of events with ACTIVE set.
C20_ActiveIffInItsRunQueue ==
    /\ \A e \in Events :
           /\ IsActive(ev, e) <=> RunQueueLinks(base, e) = 1
           /\ RunQueueLinks(base, e) <= 1
           /\ IsActive(ev, e) => LinkedAtItsPriority(e)
    /\ base.event_count_active = Cardinality({e \in Events : IsActive(ev, e)})

\* The same, as long as no event has been activated with a priority that
\* is not below nactivequeues.
C20_ActiveIffInItsRunQueueInRange ==
    fault = "none" => C20_ActiveIffInItsRunQueue

\* ------------------------------------------------------------------ C21
\* C21: every event bound to the base has 0 <= ev_pri < nactivequeues in
\* every reachable state, whatever event_priority_set and
\* event_base_priority_init calls have been made, a shrinking
\* event_base_priority_init among them, so that an activation links the
\* event in a run-queue that exists.
C21_PriorityInRange ==
    /\ \A e \in Events :
           0 <= ev[e].ev_pri /\ ev[e].ev_pri < base.nactivequeues
    /\ fault # "oob"

\* ------------------------------------------------------------------ C22
\* The deadline the claim gives for the poll of an iteration that starts
\* at the time now and reaches the backend with the base b_ and events evs.
ClaimedDeadline(b_, evs, f, now) ==
    IF b_.event_count_active # 0 \/ EVLOOP_NONBLOCK \in f
    THEN 0
    ELSE IF Len(b_.timeheap) = 0
    THEN NULL
    ELSE IF evs[b_.timeheap[1]].ev_timeout - now > 0
    THEN evs[b_.timeheap[1]].ev_timeout - now
    ELSE 0

\* C22: in each iteration the backend is called with a zero deadline when
\* an event is active or EVLOOP_NONBLOCK is set, otherwise with
\* max(0, deadline at the top of the heap - now) when the heap is not
\* empty, and with no deadline only when the heap is empty and nothing is
\* active; so the loop is never in the backend without a deadline while a
\* timer is pending or an event is active.
C22_PollDeadline ==
    /\ [][(pc = "loop" /\ pc' = "dispatch") =>
            tv_p' = ClaimedDeadline(base', ev', flags, gettime(St, clock))]_vars
    /\ []((pc = "dispatch" /\ tv_p = NULL) =>
            /\ Len(base.timeheap) = 0
            /\ base.event_count_active = 0
            /\ \A e \in Events : ~IsActive(ev, e) /\ ~InHeap(e))

\* The backend waits for the first deadline, which is still ahead.
C22_Witness ==
    /\ pc = "dispatch"
    /\ tv_p = 1
    /\ Len(base.timeheap) > 0
    /\ ev[base.timeheap[1]].ev_timeout = clock + 1

\* ------------------------------------------------------------------ C23
InsertedSet(evs) == {e \in Events : EVLIST_INSERTED \in evs[e].ev_flags}

InRegistry(b_, e) == \E i \in 1..Len(b_.eventqueue) : b_.eventqueue[i] = e

\* C23 as stated: whenever event_add returns 0 for an event with a READ,
\* WRITE or SIGNAL interest, the event is INSERTED on return, in the
\* registry and registered with the backend, whatever flags it had, ACTIVE
\* without INSERTED among them; and in every reachable state the backend
\* has registered exactly the INSERTED events.
C23_AddedIsInserted ==
    /\ UserRuns =>
           \A e \in Events, tv \in {NULL, 0}, nomem, fail \in BOOLEAN :
               (HasIO(St, e) /\ event_add_res(St, e, tv, nomem, fail) = 0) =>
                   LET s == event_add(St, e, tv, clock, nomem, fail)
                   IN  /\ EVLIST_INSERTED \in s.ev[e].ev_flags
                       /\ InRegistry(s.base, e)
                       /\ e \in s.evsel
    /\ evsel = InsertedSet(ev)

\* C23 amended: a successful event_add registers and inserts the event
\* when it was neither INSERTED nor ACTIVE, and leaves INSERTED and the
\* backend as they were otherwise, so an event that was ACTIVE without
\* INSERTED is not registered; every INSERTED event is in the registry and
\* registered with the backend, and the backend may also hold an event
\* whose unregistration it has refused.
C23_AddedIsInsertedUnlessActive ==
    /\ UserRuns =>
           \A e \in Events, tv \in {NULL, 0}, nomem, fail \in BOOLEAN :
               (HasIO(St, e) /\ event_add_res(St, e, tv, nomem, fail) = 0) =>
                   LET s == event_add(St, e, tv, clock, nomem, fail)
                       was == ev[e].ev_flags \cap {EVLIST_INSERTED, EVLIST_ACTIVE}
                   IN  /\ was = {} =>
                              /\ EVLIST_INSERTED \in s.ev[e].ev_flags
                              /\ InRegistry(s.base, e)
                              /\ e \in s.evsel
                       /\ was # {} =>
                              /\ InsertedSet(s.ev) = InsertedSet(ev)
                              /\ s.base.eventqueue = base.eventqueue
                              /\ s.evsel = evsel
    /\ \A e \in InsertedSet(ev) : e \in evsel /\ InRegistry(base, e)

\* Inside a callback an event with a READ interest is ACTIVE and neither
\* INSERTED nor known to the backend: an add of it would succeed.
C23_Witness ==
    /\ pc = "cb"
    /\ \E e \in Events :
           /\ HasIO(St, e)
           /\ ev[e].ev_flags \cap {EVLIST_INSERTED, EVLIST_ACTIVE} = {EVLIST_ACTIVE}
           /\ e \notin evsel

\* ------------------------------------------------------------------ C24
\* C24 (as stated): an event that is added again, or that becomes active
\* again at the priority being drained, while its own callback is running
\* is not invoked again in the current call of event_process_active: the
\* drain never starts the callbacks of an event that was made active
\* during one of its own callbacks in this drain.
C24_NotInvokedAgainInThisDrain ==
    [][(pc = "active" /\ pc' = "cb") => cur' \notin reactivated]_vars

\* C24 (amended): event_add alone never makes an event active, so an event
\* that is only added again in its callback is not invoked again in the
\* drain.  An event that its own callback makes active at the priority
\* being drained is linked at the tail of the queue being drained; the
\* drain goes on for as long as that queue is not empty and returns with
\* such an event still linked only on a loopbreak, so the event is invoked
\* again in the same drain and a drain has no bound on its callbacks.
C24_ReactivatedRunsInSameDrain ==
    [][/\ (pc = "cb" /\ UserRuns) =>
              \A tv \in {NULL} \cup (0..MaxTv) :
                  EVLIST_ACTIVE \in
                      event_add(St, cur, tv, clock, FALSE, FALSE).ev[cur].ev_flags
                  => EVLIST_ACTIVE \in ev[cur].ev_flags
       /\ \A e \in reactivated' \ reactivated :
              /\ e = cur /\ pc = "cb"
              /\ base'.activequeues[activeq] = Append(base.activequeues[activeq], e)
       /\ (pc = "active" /\ reactivated # {} /\ fault' = "none") =>
              /\ InDrain(pc')
              /\ base'.activequeues[activeq] = Tail(base.activequeues[activeq])
              /\ pc' = "cb" => cur' = Head(base.activequeues[activeq])
       /\ (InDrain(pc) /\ ~InDrain(pc') /\ reactivated # {}) =>
              base.event_break]_vars

\* A callback has made its own event active while another event waits in
\* the queue being drained: the event is linked behind it.
C24_Witness ==
    /\ pc = "cb" /\ cur \in reactivated
    /\ Len(base.activequeues[activeq]) = 2
    /\ base.activequeues[activeq][2] = cur
    /\ ~base.event_break

\* ------------------------------------------------------------------ C25
\* C25: whenever event_base_loop returns, event_break and event_gotterm
\* are both clear, so a break or an exit raised inside a callback ends the
\* call of event_base_loop during which it was raised and no later one;
\* this for every flags argument, EVLOOP_ONCE included.
C25_FlagsClearOnReturn ==
    pc = "returned" => ~base.event_break /\ ~base.event_gotterm

\* ------------------------------------------------------------------ C26
\* timeout_process takes e out of the heap and makes it active.
Expires(e, evs) == InHeap(e) /\ EVLIST_TIMEOUT \notin evs[e].ev_flags

C27_DrainLeavesReleasedAlone ==
    [][(pc = "ret" /\ cur \in released) =>
          /\ ev'[cur].ev_pncalls = ev[cur].ev_pncalls
          /\ fault' = "none"]_vars

====
